---- MODULE Spec2Model ----
(***************************************************************************)
(* FAQ chatbot: urgency classification (urgency.py), the process-wide      *)
(* LLM response cache (cache.py) and the FAQChatbot session (faq_bot.py).  *)
(*                                                                         *)
(* Texts are sequences of one-character strings.  Temperatures are kept    *)
(* in tenths (0.1 -> 1, 0.9 -> 9) and wall-clock times in milliseconds     *)
(* (0.1 s -> 100).  Python's None is the empty tuple <<>> and a present    *)
(* value x is <<x>>.                                                       *)
(***************************************************************************)
EXTENDS Integers, Sequences, FiniteSets, TLC

VARIABLES
    chat_history,        \* bot -> self.chat_history (list of messages)
    stats,               \* bot -> self.stats
    current_llm,         \* bot -> self.current_llm (<<>> is None)
    current_temperature, \* bot -> self.current_temperature (<<>> is None)
    model_name,          \* bot -> self.model_name
    llm_cache,           \* the module-level InMemoryCache: key -> stored content
    log,                 \* history variable: one record per chat() call, in order
    provider_calls,      \* history variable: provider calls started so far
    turns,               \* history variable: bot -> successful chat() calls since
                         \* construction or the last clear_history
    inflight,            \* bot -> <<>> or <<the chat() call waiting for the provider>>
    cl_input,            \* classification run: the text given
    cl_result            \* classification run: <<>> or <<[temperature, urgency]>>

vars == <<chat_history, stats, current_llm, current_temperature, model_name,
          llm_cache, log, provider_calls, turns, inflight, cl_input, cl_result>>

----------------------------------------------------------------------------
(* Bounds of the model *)

\* chat() calls recorded in one behaviour
MaxSubmits == 3

\* longest text given to the classifier in a classification run
MaxLen == 4

----------------------------------------------------------------------------
(* Program constants *)

\* urgency.py: return 0.1, in tenths
TempUrgent == 1

\* urgency.py: return 0.9, in tenths
TempCasual == 9

\* faq_bot.py: max_tokens=300
MaxTokens == 300

\* faq_bot.py: elapsed_time < 0.1, in milliseconds
HitThreshold == 100

Bots == {1, 2}

\* the model of FAQChatbot(), as test_bot.py constructs it; every bot of the
\* model is constructed so
DefaultModel == "gpt-3.5-turbo"

\* the rendered system prompt: the same for every bot, faq_data being fixed
SystemPrompt == <<"S", "Y", "S">>

\* texts the provider may generate; which one is the provider's choice
Responses == {<<"r", "1">>, <<"r", "2">>}

\* str(e) of a failed provider call
Errors == {"APIConnectionError"}

\* elapsed wall-clock times of a call, in milliseconds, on both sides of the
\* threshold; time.time() differences are not determined by the program
Elapsed == {50, 100}

\* texts submitted to chat(): a casual one and an urgent one in upper case
ChatTexts == {<<"h", "i">>, <<"A", "S", "A", "P">>}

\* characters of the texts given to the classifier
Alphabet == {"a", "s", "p", "A", "P", "!", "x"}

Texts == UNION {[1..n -> Alphabet] : n \in 0..MaxLen}

----------------------------------------------------------------------------
(* urgency.py *)

urgent_keywords ==
    << <<"u","r","g","e","n","t">>, <<"u","r","g","e","n","t","l","y">>,
       <<"i","m","m","e","d","i","a","t","e","l","y">>,
       <<"i","m","m","e","d","i","a","t","e">>,
       <<"a","s","a","p">>, <<"a",".","s",".","a",".","p">>,
       <<"r","i","g","h","t"," ","n","o","w">>,
       <<"h","e","l","p","!">>, <<"h","e","l","p"," ","m","e">>,
       <<"e","m","e","r","g","e","n","c","y">>,
       <<"c","r","i","t","i","c","a","l">>,
       <<"b","r","o","k","e","n">>,
       <<"n","o","t"," ","w","o","r","k","i","n","g">>,
       <<"p","r","o","b","l","e","m">>, <<"i","s","s","u","e">>,
       <<"!","!","!">>, <<"!","!","!","!">> >>

\* str.lower() on one character of the texts used here
LowerChar(c) ==
    CASE c = "A" -> "a"
      [] c = "S" -> "s"
      [] c = "P" -> "p"
      [] OTHER -> c

\* str.lower()
Lower(text) == [i \in 1..Len(text) |-> LowerChar(text[i])]

\* word in text
Contains(word, text) ==
    \E i \in 1..(Len(text) - Len(word) + 1) :
        SubSeq(text, i, i + Len(word) - 1) = word

\* detect_urgency without the lowercasing
detect_urgency_case_sensitive(text) ==
    IF \E k \in 1..Len(urgent_keywords) : Contains(urgent_keywords[k], text)
    THEN TempUrgent
    ELSE TempCasual

detect_urgency(text) ==
    LET text_lower == Lower(text)
    IN  IF \E k \in 1..Len(urgent_keywords) : Contains(urgent_keywords[k], text_lower)
        THEN TempUrgent
        ELSE TempCasual

get_urgency_level(text) ==
    LET temp == detect_urgency(text)
    IN  IF temp = TempUrgent THEN "URGENT" ELSE "CASUAL"

----------------------------------------------------------------------------
(* faq_bot.py: helpers of chat() *)

SystemMessage == [type |-> "system", content |-> SystemPrompt]

HumanMessage(content) == [type |-> "human", content |-> content]

AIMessage(content) == [type |-> "ai", content |-> content]

InitStats ==
    [total_queries |-> 0, urgent_queries |-> 0, casual_queries |-> 0,
     cache_hits |-> 0, cache_misses |-> 0, total_time |-> 0]

\* ChatOpenAI(model=..., temperature=..., max_tokens=300, ..., cache=True)
ChatOpenAI(model, temperature) ==
    [model |-> model, temperature |-> temperature, max_tokens |-> MaxTokens]

\* a client is built the first time only
NeedsNewLlmFirstOnly(llm, cur_temperature, temperature) == llm = <<>>

\* _get_llm: a new client when there is none or the temperature changed
NeedsNewLlm(llm, cur_temperature, temperature) ==
    llm = <<>> \/ cur_temperature # <<temperature>>

get_llm(b, temperature) ==
    IF NeedsNewLlm(current_llm[b], current_temperature[b], temperature)
    THEN ChatOpenAI(model_name[b], temperature)
    ELSE current_llm[b][1]

\* a prompt with the input placed before the history
PromptMessagesInputFirst(history, user_input) ==
    <<SystemMessage, HumanMessage(user_input)>> \o history

\* a prompt that keeps the last exchange of the history alone
PromptMessagesWindow(history, user_input) ==
    <<SystemMessage>>
        \o (IF Len(history) > 2 THEN SubSeq(history, Len(history) - 1, Len(history))
                                ELSE history)
        \o <<HumanMessage(user_input)>>

\* self.prompt: system message, MessagesPlaceholder("chat_history"), human input
PromptMessages(history, user_input) ==
    <<SystemMessage>> \o history \o <<HumanMessage(user_input)>>

\* RecordQuery without the tier counters
RecordQueryTotalOnly(st, urgency_level) ==
    [st EXCEPT !.total_queries = @ + 1]

\* the statistics update before the call
RecordQuery(st, urgency_level) ==
    IF urgency_level = "URGENT"
    THEN [st EXCEPT !.total_queries = @ + 1, !.urgent_queries = @ + 1]
    ELSE [st EXCEPT !.total_queries = @ + 1, !.casual_queries = @ + 1]

\* elapsed_time < 0.1
EstimateCached(elapsed_time) == elapsed_time < HitThreshold

\* RecordTiming that counts the estimated hits alone
RecordTimingHitsOnly(st, elapsed_time) ==
    IF EstimateCached(elapsed_time)
    THEN [st EXCEPT !.total_time = @ + elapsed_time, !.cache_hits = @ + 1]
    ELSE [st EXCEPT !.total_time = @ + elapsed_time]

\* the statistics update after a successful call
RecordTiming(st, elapsed_time) ==
    IF EstimateCached(elapsed_time)
    THEN [st EXCEPT !.total_time = @ + elapsed_time, !.cache_hits = @ + 1]
    ELSE [st EXCEPT !.total_time = @ + elapsed_time, !.cache_misses = @ + 1]

\* the two appends in the other order
AppendExchangeAnswerFirst(history, user_input, content) ==
    history \o <<AIMessage(content), HumanMessage(user_input)>>

\* the two appends to self.chat_history
AppendExchange(history, user_input, content) ==
    history \o <<HumanMessage(user_input), AIMessage(content)>>

\* the dict returned on success; "tokens" passes the provider's token usage
\* through and is left out
SuccessResult(content, urgency_level, temperature, elapsed_time) ==
    [success |-> TRUE, message |-> content, urgency |-> urgency_level,
     temperature |-> temperature, time |-> elapsed_time,
     cached |-> EstimateCached(elapsed_time)]

FailureResult(error, urgency_level, temperature) ==
    [success |-> FALSE, error |-> error, urgency |-> urgency_level,
     temperature |-> temperature]

----------------------------------------------------------------------------
(* cache.py and cache=True: the global InMemoryCache used by the chat model. *)
(* An entry is looked up under (serialized messages, llm string) and is      *)
(* written after a provider call that returned.                              *)

\* dumps(messages)
Dumps(messages) ==
    [i \in 1..Len(messages) |-> <<messages[i].type, messages[i].content>>]

\* the client's parameters as the cache sees them
LlmString(llm) == <<llm.model, llm.temperature, llm.max_tokens>>

\* a key that keeps the last message alone
CacheKeyLastMessage(messages, llm) ==
    <<Dumps(<<messages[Len(messages)]>>), LlmString(llm)>>

CacheKey(messages, llm) == <<Dumps(messages), LlmString(llm)>>

\* a lookup that never finds an entry
CacheLookupNever(key) == <<>>

CacheLookup(key) == IF key \in DOMAIN llm_cache THEN <<llm_cache[key]>> ELSE <<>>

CacheUpdate(key, content) ==
    [k \in DOMAIN llm_cache \cup {key} |-> IF k = key THEN content ELSE llm_cache[k]]

----------------------------------------------------------------------------
(* faq_bot.py: FAQChatbot *)

\* one chat() call as the log keeps it
LogEntry(b, user_input, messages, llm, created, called, result) ==
    [bot |-> b, user_input |-> user_input, messages |-> messages, llm |-> llm,
     llm_created |-> created, provider_called |-> called, result |-> result]

\* chat(user_input) when the cache holds the request: no provider call
ChatHit(b, user_input, elapsed_time) ==
    LET temperature == detect_urgency(user_input)
        urgency_level == get_urgency_level(user_input)
        created == NeedsNewLlm(current_llm[b], current_temperature[b], temperature)
        llm == get_llm(b, temperature)
        messages == PromptMessages(chat_history[b], user_input)
        found == CacheLookup(CacheKey(messages, llm))
    IN  /\ Len(log) < MaxSubmits
        /\ found # <<>>
        /\ current_llm' = [current_llm EXCEPT ![b] = <<llm>>]
        /\ current_temperature' = [current_temperature EXCEPT ![b] = <<temperature>>]
        /\ chat_history' =
              [chat_history EXCEPT ![b] = AppendExchange(@, user_input, found[1])]
        /\ stats' =
              [stats EXCEPT ![b] = RecordTiming(RecordQuery(@, urgency_level), elapsed_time)]
        /\ log' = Append(log, LogEntry(b, user_input, messages, llm, created, FALSE,
                     SuccessResult(found[1], urgency_level, temperature, elapsed_time)))
        /\ turns' = [turns EXCEPT ![b] = @ + 1]
        /\ UNCHANGED <<model_name, llm_cache, provider_calls, inflight,
                       cl_input, cl_result>>

\* chat(user_input) when the cache misses and the provider returns content
ChatMiss(b, user_input, content, elapsed_time) ==
    LET temperature == detect_urgency(user_input)
        urgency_level == get_urgency_level(user_input)
        created == NeedsNewLlm(current_llm[b], current_temperature[b], temperature)
        llm == get_llm(b, temperature)
        messages == PromptMessages(chat_history[b], user_input)
        key == CacheKey(messages, llm)
    IN  /\ Len(log) < MaxSubmits
        /\ CacheLookup(key) = <<>>
        /\ current_llm' = [current_llm EXCEPT ![b] = <<llm>>]
        /\ current_temperature' = [current_temperature EXCEPT ![b] = <<temperature>>]
        /\ llm_cache' = CacheUpdate(key, content)
        /\ chat_history' =
              [chat_history EXCEPT ![b] = AppendExchange(@, user_input, content)]
        /\ stats' =
              [stats EXCEPT ![b] = RecordTiming(RecordQuery(@, urgency_level), elapsed_time)]
        /\ log' = Append(log, LogEntry(b, user_input, messages, llm, created, TRUE,
                     SuccessResult(content, urgency_level, temperature, elapsed_time)))
        /\ provider_calls' = provider_calls + 1
        /\ turns' = [turns EXCEPT ![b] = @ + 1]
        /\ UNCHANGED <<model_name, inflight, cl_input, cl_result>>

\* ChatFail with the user message appended before the call
ChatFailKeepsInput(b, user_input, error) ==
    LET temperature == detect_urgency(user_input)
        urgency_level == get_urgency_level(user_input)
        created == NeedsNewLlm(current_llm[b], current_temperature[b], temperature)
        llm == get_llm(b, temperature)
        messages == PromptMessages(chat_history[b], user_input)
        key == CacheKey(messages, llm)
    IN  /\ Len(log) < MaxSubmits
        /\ CacheLookup(key) = <<>>
        /\ current_llm' = [current_llm EXCEPT ![b] = <<llm>>]
        /\ current_temperature' = [current_temperature EXCEPT ![b] = <<temperature>>]
        /\ stats' = [stats EXCEPT ![b] = RecordQuery(@, urgency_level)]
        /\ chat_history' =
              [chat_history EXCEPT ![b] = Append(@, HumanMessage(user_input))]
        /\ log' = Append(log, LogEntry(b, user_input, messages, llm, created, TRUE,
                     FailureResult(error, urgency_level, temperature)))
        /\ provider_calls' = provider_calls + 1
        /\ UNCHANGED <<model_name, llm_cache, turns, inflight, cl_input, cl_result>>

\* ChatFail with the failure stored in the cache
ChatFailCached(b, user_input, error) ==
    LET temperature == detect_urgency(user_input)
        urgency_level == get_urgency_level(user_input)
        created == NeedsNewLlm(current_llm[b], current_temperature[b], temperature)
        llm == get_llm(b, temperature)
        messages == PromptMessages(chat_history[b], user_input)
        key == CacheKey(messages, llm)
    IN  /\ Len(log) < MaxSubmits
        /\ CacheLookup(key) = <<>>
        /\ current_llm' = [current_llm EXCEPT ![b] = <<llm>>]
        /\ current_temperature' = [current_temperature EXCEPT ![b] = <<temperature>>]
        /\ stats' = [stats EXCEPT ![b] = RecordQuery(@, urgency_level)]
        /\ llm_cache' = CacheUpdate(key, <<"e">>)
        /\ log' = Append(log, LogEntry(b, user_input, messages, llm, created, TRUE,
                     FailureResult(error, urgency_level, temperature)))
        /\ provider_calls' = provider_calls + 1
        /\ UNCHANGED <<chat_history, model_name, turns, inflight, cl_input, cl_result>>

\* chat(user_input) when the cache misses and the provider call raises
ChatFail(b, user_input, error) ==
    LET temperature == detect_urgency(user_input)
        urgency_level == get_urgency_level(user_input)
        created == NeedsNewLlm(current_llm[b], current_temperature[b], temperature)
        llm == get_llm(b, temperature)
        messages == PromptMessages(chat_history[b], user_input)
        key == CacheKey(messages, llm)
    IN  /\ Len(log) < MaxSubmits
        /\ CacheLookup(key) = <<>>
        /\ current_llm' = [current_llm EXCEPT ![b] = <<llm>>]
        /\ current_temperature' = [current_temperature EXCEPT ![b] = <<temperature>>]
        /\ stats' = [stats EXCEPT ![b] = RecordQuery(@, urgency_level)]
        /\ log' = Append(log, LogEntry(b, user_input, messages, llm, created, TRUE,
                     FailureResult(error, urgency_level, temperature)))
        /\ provider_calls' = provider_calls + 1
        /\ UNCHANGED <<chat_history, model_name, llm_cache, turns, inflight,
                       cl_input, cl_result>>

\* clear_history that resets the statistics too
clear_history_and_stats(b) ==
    /\ chat_history' = [chat_history EXCEPT ![b] = <<>>]
    /\ stats' = [stats EXCEPT ![b] = InitStats]
    /\ turns' = [turns EXCEPT ![b] = 0]
    /\ UNCHANGED <<current_llm, current_temperature, model_name,
                   llm_cache, log, provider_calls, inflight, cl_input, cl_result>>

\* clear_history that empties the cache too
clear_history_and_cache(b) ==
    /\ chat_history' = [chat_history EXCEPT ![b] = <<>>]
    /\ llm_cache' = <<>>
    /\ turns' = [turns EXCEPT ![b] = 0]
    /\ UNCHANGED <<stats, current_llm, current_temperature, model_name,
                   log, provider_calls, inflight, cl_input, cl_result>>

\* clear_history on a history list shared by every bot
clear_history_shared(b) ==
    /\ chat_history' = [c \in Bots |-> <<>>]
    /\ turns' = [c \in Bots |-> 0]
    /\ UNCHANGED <<stats, current_llm, current_temperature, model_name,
                   llm_cache, log, provider_calls, inflight, cl_input, cl_result>>

clear_history(b) ==
    /\ chat_history' = [chat_history EXCEPT ![b] = <<>>]
    /\ turns' = [turns EXCEPT ![b] = 0]
    /\ UNCHANGED <<stats, current_llm, current_temperature, model_name,
                   llm_cache, log, provider_calls, inflight, cl_input, cl_result>>

----------------------------------------------------------------------------
(* chat() calls of different bots running in different threads: the call   *)
(* of a bot is split where it waits for the provider, between the cache    *)
(* lookup that missed and the cache update.  A bot has one call at a time. *)

InFlight == {c \in Bots : inflight[c] # <<>>}

\* chat(user_input) up to the provider call, the cache holding no entry
ChatStart(b, user_input) ==
    LET temperature == detect_urgency(user_input)
        urgency_level == get_urgency_level(user_input)
        created == NeedsNewLlm(current_llm[b], current_temperature[b], temperature)
        llm == get_llm(b, temperature)
        messages == PromptMessages(chat_history[b], user_input)
        key == CacheKey(messages, llm)
    IN  /\ inflight[b] = <<>>
        /\ Len(log) + Cardinality(InFlight) < MaxSubmits
        /\ CacheLookup(key) = <<>>
        /\ current_llm' = [current_llm EXCEPT ![b] = <<llm>>]
        /\ current_temperature' = [current_temperature EXCEPT ![b] = <<temperature>>]
        /\ stats' = [stats EXCEPT ![b] = RecordQuery(@, urgency_level)]
        /\ provider_calls' = provider_calls + 1
        /\ inflight' = [inflight EXCEPT ![b] =
                           <<[user_input |-> user_input, messages |-> messages,
                              llm |-> llm, llm_created |-> created,
                              urgency |-> urgency_level,
                              temperature |-> temperature]>>]
        /\ UNCHANGED <<chat_history, model_name, llm_cache, log, turns,
                       cl_input, cl_result>>

\* the provider returns content to the waiting call of bot b
ChatReturn(b, content, elapsed_time) ==
    /\ inflight[b] # <<>>
    /\ LET c == inflight[b][1]
       IN  /\ llm_cache' = CacheUpdate(CacheKey(c.messages, c.llm), content)
           /\ chat_history' =
                 [chat_history EXCEPT ![b] = AppendExchange(@, c.user_input, content)]
           /\ stats' = [stats EXCEPT ![b] = RecordTiming(@, elapsed_time)]
           /\ log' = Append(log, LogEntry(b, c.user_input, c.messages, c.llm,
                        c.llm_created, TRUE,
                        SuccessResult(content, c.urgency, c.temperature, elapsed_time)))
    /\ turns' = [turns EXCEPT ![b] = @ + 1]
    /\ inflight' = [inflight EXCEPT ![b] = <<>>]
    /\ UNCHANGED <<current_llm, current_temperature, model_name, provider_calls,
                   cl_input, cl_result>>

\* the provider call of the waiting call of bot b raises
ChatRaise(b, error) ==
    /\ inflight[b] # <<>>
    /\ LET c == inflight[b][1]
       IN  log' = Append(log, LogEntry(b, c.user_input, c.messages, c.llm,
                     c.llm_created, TRUE,
                     FailureResult(error, c.urgency, c.temperature)))
    /\ inflight' = [inflight EXCEPT ![b] = <<>>]
    /\ UNCHANGED <<chat_history, stats, current_llm, current_temperature, model_name,
                   llm_cache, provider_calls, turns, cl_input, cl_result>>

\* a call answered from the cache, by a bot that is not waiting
ChatHitIdle(b, user_input, elapsed_time) ==
    /\ inflight[b] = <<>>
    /\ ChatHit(b, user_input, elapsed_time)

\* clear_history of a bot that is not waiting
ClearIdle(b) ==
    /\ inflight[b] = <<>>
    /\ clear_history(b)

\* the first two statements of chat() on a text, alone
Classify ==
    /\ cl_result = <<>>
    /\ cl_result' = <<[temperature |-> detect_urgency(cl_input),
                      urgency |-> get_urgency_level(cl_input)]>>
    /\ UNCHANGED <<chat_history, stats, current_llm, current_temperature,
                   model_name, llm_cache, log, provider_calls, turns, inflight,
                   cl_input>>

InitBots ==
    /\ chat_history = [b \in Bots |-> <<>>]
    /\ stats = [b \in Bots |-> InitStats]
    /\ current_llm = [b \in Bots |-> <<>>]
    /\ current_temperature = [b \in Bots |-> <<>>]
    /\ model_name = [b \in Bots |-> DefaultModel]
    /\ llm_cache = <<>>
    /\ log = <<>>
    /\ provider_calls = 0
    /\ turns = [b \in Bots |-> 0]
    /\ inflight = [b \in Bots |-> <<>>]

Init ==
    /\ InitBots
    /\ cl_input = <<>>
    /\ cl_result = <<>>

Next ==
    \/ \E b \in Bots, t \in ChatTexts, e \in Elapsed : ChatHit(b, t, e)
    \/ \E b \in Bots, t \in ChatTexts, r \in Responses, e \in Elapsed : ChatMiss(b, t, r, e)
    \/ \E b \in Bots, t \in ChatTexts, err \in Errors : ChatFail(b, t, err)
    \/ \E b \in Bots : clear_history(b)

Spec == Init /\ [][Next]_vars

NextConc ==
    \/ \E b \in Bots, t \in ChatTexts : ChatStart(b, t)
    \/ \E b \in Bots, r \in Responses, e \in Elapsed : ChatReturn(b, r, e)
    \/ \E b \in Bots, err \in Errors : ChatRaise(b, err)
    \/ \E b \in Bots, t \in ChatTexts, e \in Elapsed : ChatHitIdle(b, t, e)
    \/ \E b \in Bots : ClearIdle(b)

SpecConc == Init /\ [][NextConc]_vars

InitClassify ==
    /\ InitBots
    /\ cl_input \in Texts
    /\ cl_result = <<>>

NextClassify == Classify

SpecClassify == InitClassify /\ [][NextClassify]_vars

----------------------------------------------------------------------------
(* Properties *)

Idx == 1..Len(log)

\* the cache key of the i-th chat() call
KeyOf(i) == CacheKey(log[i].messages, log[i].llm)

\* the i-th call ran the provider, which returned, so its content was stored
Stored(i) == log[i].provider_called /\ log[i].result.success

\* the j-th call was answered with the entry the i-th call stored
ServedFrom(j, i) == ~log[j].provider_called /\ Stored(i) /\ KeyOf(j) = KeyOf(i)

\* the two calls sent the same request: same messages, same client parameters
SameRequest(i, j) == log[i].messages = log[j].messages /\ log[i].llm = log[j].llm

\* the chat() calls of bot b, and the urgent ones among them
CallsOf(b) == {i \in Idx : log[i].bot = b}

UrgentCallsOf(b) == {i \in CallsOf(b) : log[i].result.urgency = "URGENT"}

\* this step is a chat() call that returned a failure
FailedStep == Len(log') = Len(log) + 1 /\ ~log'[Len(log')].result.success

\* the lowercased text holds keyword w at position i
MarkerAt(text, w, i) ==
    /\ i + Len(w) - 1 <= Len(text)
    /\ \A j \in 1..Len(w) : LowerChar(text[i + j - 1]) = w[j]

HasMarker(text) ==
    \E k \in 1..Len(urgent_keywords), i \in 1..Len(text) :
        MarkerAt(text, urgent_keywords[k], i)

\* C1: every text is classified (URGENT, 0.1) exactly when its lowercased form
\* holds an urgency marker as a substring and (CASUAL, 0.9) otherwise; the
\* empty text is CASUAL, a text that is one marker is URGENT, and the tier is
\* URGENT exactly when the temperature is 0.1.
C1_Classification ==
    cl_result # <<>> =>
        LET r == cl_result[1]
        IN  /\ HasMarker(cl_input) =>
                  r.urgency = "URGENT" /\ r.temperature = TempUrgent
            /\ ~HasMarker(cl_input) =>
                  r.urgency = "CASUAL" /\ r.temperature = TempCasual
            /\ r.urgency = "URGENT" <=> r.temperature = TempUrgent
            /\ cl_input = <<>> => r.urgency = "CASUAL"
            /\ (\E k \in 1..Len(urgent_keywords) : cl_input = urgent_keywords[k]) =>
                  r.urgency = "URGENT"

\* C1 witness: a mixed-case text that is one marker has been classified URGENT.
C1_Witness ==
    /\ cl_input = <<"A", "s", "A", "P">>
    /\ cl_result # <<>>
    /\ cl_result[1].urgency = "URGENT"

\* C2 as claimed: of two successful calls with the same request, the second
\* is marked cached and returns the text of the first.
C2_RepeatMarkedHit ==
    \A i \in Idx, j \in Idx :
        (i < j /\ SameRequest(i, j) /\ log[i].result.success /\ log[j].result.success) =>
            /\ log[j].result.cached
            /\ log[j].result.message = log[i].result.message

C4_StatsAfterSuccesses ==
    \A b \in Bots :
        (\A i \in CallsOf(b) : log[i].result.success) =>
            /\ stats[b].total_queries = Cardinality(CallsOf(b))
            /\ stats[b].urgent_queries = Cardinality(UrgentCallsOf(b))
            /\ stats[b].casual_queries =
                  Cardinality(CallsOf(b)) - Cardinality(UrgentCallsOf(b))
            /\ stats[b].cache_hits + stats[b].cache_misses = Cardinality(CallsOf(b))

\* C4 witness: a bot has made three successful calls, urgent and casual ones.
C4_Witness ==
    \E b \in Bots :
        /\ \A i \in CallsOf(b) : log[i].result.success
        /\ Cardinality(CallsOf(b)) = 3
        /\ Cardinality(UrgentCallsOf(b)) \in {1, 2}

\* C5: a chat() call in which the provider fails returns a failure result
\* with an error description and the classified tier and temperature, and
\* leaves every history as it was.
C5_FailureKeepsHistory ==
    [][FailedStep =>
          LET e == log'[Len(log')]
          IN  /\ chat_history' = chat_history
              /\ e.result.error \in Errors
              /\ e.result.urgency = get_urgency_level(e.user_input)
              /\ e.result.temperature = detect_urgency(e.user_input)]_vars

\* C5 witness: the last call failed on a bot whose history is not empty.
C5_Witness ==
    /\ Len(log) >= 2
    /\ ~log[Len(log)].result.success
    /\ chat_history[log[Len(log)].bot] # <<>>

\* C6: after a failed call the cache holds no entry for its request, and the
\* next call of the same bot with the same request runs the provider again
\* and, when that returns, appends the exchange to the history.
C6_FailureNotCached ==
    [][(Len(log) > 0 /\ ~log[Len(log)].result.success) =>
          /\ KeyOf(Len(log)) \notin DOMAIN llm_cache
          /\ (/\ Len(log') = Len(log) + 1
              /\ log'[Len(log')].bot = log[Len(log)].bot
              /\ log'[Len(log')].messages = log[Len(log)].messages
              /\ log'[Len(log')].llm = log[Len(log)].llm) =>
                 LET e == log'[Len(log')]
                 IN  /\ e.provider_called
                     /\ e.result.success =>
                            chat_history'[e.bot] =
                                chat_history[e.bot] \o
                                    <<HumanMessage(e.user_input),
                                      AIMessage(e.result.message)>>]_vars

\* C6 witness: a failed call is followed by a successful call of the same bot
\* with the same request.
C6_Witness ==
    \E i \in Idx :
        /\ i + 1 \in Idx
        /\ ~log[i].result.success
        /\ log[i + 1].bot = log[i].bot
        /\ SameRequest(i, i + 1)
        /\ log[i + 1].result.success

\* C7: a failed call adds one to total_queries and to the counter of the
\* classified tier, and changes no other counter of any bot.
C7_FailureCounts ==
    [][FailedStep =>
          LET e == log'[Len(log')]
              tier == IF e.result.urgency = "URGENT"
                      THEN "urgent_queries" ELSE "casual_queries"
          IN  stats' = [stats EXCEPT ![e.bot] =
                           [@ EXCEPT !.total_queries = @ + 1, ![tier] = @ + 1]]]_vars

\* C7 witness: the last call failed on a bot that has timed calls behind it.
C7_Witness ==
    /\ Len(log) >= 2
    /\ ~log[Len(log)].result.success
    /\ stats[log[Len(log)].bot].cache_hits + stats[log[Len(log)].bot].cache_misses >= 1
    /\ stats[log[Len(log)].bot].total_time > 0

\* C8: a step that is not a chat() call is a clear_history of one bot: it
\* leaves that bot's history empty and every statistics counter as it was.
C8_ClearKeepsStats ==
    [][(log' = log /\ vars' # vars) =>
          /\ \E b \in Bots : chat_history' = [chat_history EXCEPT ![b] = <<>>]
          /\ stats' = stats]_vars

\* C8 witness: a bot with counted calls has an empty history again.
C8_Witness ==
    \E b \in Bots :
        /\ chat_history[b] = <<>>
        /\ stats[b].cache_hits + stats[b].cache_misses >= 1
        /\ stats[b].total_time > 0

\* the j-th request carries the i-th request's history and exchange
ContinuesFrom(j, i) ==
    /\ log[i].result.success
    /\ Len(log[j].messages) > Len(log[i].messages)
    /\ SubSeq(log[j].messages, 1, Len(log[i].messages) + 1) =
           log[i].messages \o <<AIMessage(log[i].result.message)>>

\* C9 as claimed: a bot's repeat of a text it submitted successfully earlier,
\* with the history not cleared since, does not run the provider and is
\* marked cached.
C9_RepeatInSessionCached ==
    \A i \in Idx, j \in Idx :
        (/\ i < j
         /\ log[i].bot = log[j].bot
         /\ log[i].user_input = log[j].user_input
         /\ ContinuesFrom(j, i)) =>
            /\ ~log[j].provider_called
            /\ log[j].result.success
            /\ log[j].result.cached

\* C10 as claimed: a successful call that ran the provider is marked not
\* cached.
C10_FreshCallMarkedMiss ==
    \A j \in Idx : Stored(j) => ~log[j].result.cached

\* this step is a chat() call that returned
ChatStep == Len(log') = Len(log) + 1

\* C11: a chat() call whose request key is in the cache starts no provider
\* call and leaves the cache alone; one whose key is absent starts exactly one,
\* whose content, when it returns, is stored under that key, and which is not
\* repeated when it fails.
C11_OneProviderCall ==
    [][ChatStep =>
          LET e == log'[Len(log')]
              key == CacheKey(e.messages, e.llm)
          IN  IF key \in DOMAIN llm_cache
              THEN /\ provider_calls' = provider_calls
                   /\ ~e.provider_called
                   /\ e.result.success
                   /\ llm_cache' = llm_cache
              ELSE /\ provider_calls' = provider_calls + 1
                   /\ e.provider_called
                   /\ e.result.success =>
                          /\ DOMAIN llm_cache' = DOMAIN llm_cache \cup {key}
                          /\ llm_cache'[key] = e.result.message
                   /\ ~e.result.success => llm_cache' = llm_cache]_vars

\* C11 witness: three calls, one failed and one answered from the cache, with
\* two provider calls in all.
C11_Witness ==
    /\ Len(log) = 3
    /\ provider_calls = 2
    /\ \E i \in Idx : ~log[i].result.success
    /\ \E i \in Idx : ~log[i].provider_called

\* C12 as claimed: two calls waiting for the provider at the same time never
\* have the same request key.
C12_SingleFlight ==
    \A b1 \in Bots, b2 \in Bots :
        (b1 # b2 /\ inflight[b1] # <<>> /\ inflight[b2] # <<>>) =>
            CacheKey(inflight[b1][1].messages, inflight[b1][1].llm) #
                CacheKey(inflight[b2][1].messages, inflight[b2][1].llm)

\* the successful chat() calls of bot b
SuccessesOf(b) == {i \in CallsOf(b) : log[i].result.success}

\* the place of the exchange of call i in the history of its bot, counted in
\* exchanges from the start; 0 or less when a clear_history removed it
PlaceOf(i) ==
    LET b == log[i].bot
    IN  Cardinality({j \in SuccessesOf(b) : j <= i})
            - (Cardinality(SuccessesOf(b)) - turns[b])

\* C13: the history of a bot is the exchanges of its successful calls since
\* its last clear_history (or construction), in call order: for each, the
\* human message with the submitted text, then the ai message with the
\* returned text; so it alternates and has twice that many messages.
C13_HistoryIsExchanges ==
    \A b \in Bots :
        /\ turns[b] <= Cardinality(SuccessesOf(b))
        /\ Len(chat_history[b]) = 2 * turns[b]
        /\ \A k \in 1..Len(chat_history[b]) :
               chat_history[b][k].type = IF k % 2 = 1 THEN "human" ELSE "ai"
        /\ \A i \in SuccessesOf(b) :
               PlaceOf(i) >= 1 =>
                   /\ chat_history[b][2 * PlaceOf(i) - 1] =
                          [type |-> "human", content |-> log[i].user_input]
                   /\ chat_history[b][2 * PlaceOf(i)] =
                          [type |-> "ai", content |-> log[i].result.message]

\* C13 witness: a bot with three successful calls holds the exchanges of the
\* last two: its history was cleared after the first.
C13_Witness ==
    \E b \in Bots :
        /\ Cardinality(SuccessesOf(b)) = 3
        /\ turns[b] = 2
        /\ Len(chat_history[b]) = 4

\* C14: the request of a chat() call is the system message, then the history
\* as it was before the call, message by message in order, then the new human
\* message.
C14_RequestShape ==
    [][ChatStep =>
          LET e == log'[Len(log')]
              h == chat_history[e.bot]
          IN  /\ Len(e.messages) = Len(h) + 2
              /\ e.messages[1] = [type |-> "system", content |-> SystemPrompt]
              /\ \A k \in 1..Len(h) : e.messages[k + 1] = h[k]
              /\ e.messages[Len(h) + 2] =
                     [type |-> "human", content |-> e.user_input]]_vars

\* C14 witness: a request carried a history of two exchanges.
C14_Witness ==
    \E i \in Idx :
        /\ Len(log[i].messages) = 6
        /\ log[i].messages[2].type = "human"
        /\ log[i].messages[6].type = "human"

\* the call of the same bot before call i, 0 when there is none
PrevCall(i) ==
    LET before == {j \in CallsOf(log[i].bot) : j < i}
    IN  IF before = {} THEN 0 ELSE CHOOSE j \in before : \A k \in before : k <= j

\* C15: the client of every call has the temperature classified for the
\* call's text, current_temperature is the temperature of current_llm, and a
\* client is built exactly for a bot's first call and for a call whose
\* temperature differs from that of the bot's call before it.
C15_ClientMatchesTemperature ==
    /\ \A b \in Bots :
           current_llm[b] # <<>> =>
               current_temperature[b] = <<current_llm[b][1].temperature>>
    /\ \A i \in Idx :
           /\ log[i].llm.temperature = log[i].result.temperature
           /\ log[i].llm.temperature =
                  (IF HasMarker(log[i].user_input) THEN TempUrgent ELSE TempCasual)
           /\ log[i].llm_created <=>
                  (\/ PrevCall(i) = 0
                   \/ log[PrevCall(i)].llm.temperature # log[i].llm.temperature)

\* C15 witness: a bot reused its client for a second call and built a new one
\* for a third call of the other tier.
C15_Witness ==
    \E i \in Idx, j \in Idx :
        /\ PrevCall(i) # 0
        /\ ~log[i].llm_created
        /\ PrevCall(j) = i
        /\ log[j].llm_created

\* the number of history messages that MaxSubmits successful calls in a row
\* put into the last request
LongestHistory == 2 * (MaxSubmits - 1)

\* C16 as claimed: the history in a request stays under a fixed bound, so
\* under the length a run of calls builds up.
C16_ContextBounded ==
    \A i \in Idx : Len(log[i].messages) - 2 < LongestHistory

\* C16 as amended: the request of a chat() call carries the whole history,
\* two messages for each successful call of the bot since its last
\* clear_history (or construction).
C16_ContextIsWholeHistory ==
    [][ChatStep =>
          LET e == log'[Len(log')]
          IN  Len(e.messages) - 2 = 2 * turns[e.bot]]_vars

\* C16 witness: the third successful call in a row of a bot sent four history
\* messages.
C16_Witness ==
    \E b \in Bots :
        /\ turns[b] = 3
        /\ \E i \in CallsOf(b) : Len(log[i].messages) - 2 = 4

\* C17: every entry a call stored is still in the cache with its content, and
\* a later call with the same request, from any bot, before or after any
\* clear_history, is answered with it without a provider call.
C17_CacheSurvivesClear ==
    /\ \A i \in Idx :
           Stored(i) =>
               /\ KeyOf(i) \in DOMAIN llm_cache
               /\ llm_cache[KeyOf(i)] = log[i].result.message
    /\ \A i \in Idx, j \in Idx :
           (i < j /\ Stored(i) /\ SameRequest(i, j)) =>
               /\ ~log[j].provider_called
               /\ log[j].result.success
               /\ log[j].result.message = log[i].result.message

\* C17 witness: a bot stored a request made on an empty history, and after a
\* clear_history made it again and was answered without a provider call.
C17_Witness ==
    \E i \in Idx, j \in Idx :
        /\ i < j
        /\ Stored(i)
        /\ Len(log[i].messages) = 2
        /\ log[j].bot = log[i].bot
        /\ SameRequest(i, j)
        /\ ~log[j].provider_called

\* C18: a step of one bot, a chat() call that succeeded or failed or a
\* clear_history, leaves the history and the statistics of every other bot as
\* they were.
C18_SessionsIsolated ==
    [][\E a \in Bots :
          /\ ChatStep => a = log'[Len(log')].bot
          /\ \A b \in Bots \ {a} :
                 /\ chat_history'[b] = chat_history[b]
                 /\ stats'[b] = stats[b]]_vars

\* C18 witness: both bots have a history and counted calls, and one was
\* answered from the entry the other stored.
C18_Witness ==
    /\ \A b \in Bots : chat_history[b] # <<>> /\ stats[b].total_queries >= 1
    /\ stats[1] # stats[2]
    /\ \E i \in Idx, j \in Idx :
           /\ log[i].bot # log[j].bot
           /\ ServedFrom(j, i)

\* the counters of self.stats
Counters ==
    {"total_queries", "urgent_queries", "casual_queries",
     "cache_hits", "cache_misses", "total_time"}

\* C19: for every bot, total_queries = urgent_queries + casual_queries,
\* cache_hits + cache_misses is the number of its successful calls, which is
\* at most total_queries and less once a call of it failed; and no step
\* lowers a counter.
C19_CountersAccumulate ==
    /\ [](\A b \in Bots :
             /\ stats[b].total_queries =
                    stats[b].urgent_queries + stats[b].casual_queries
             /\ stats[b].cache_hits + stats[b].cache_misses =
                    Cardinality(SuccessesOf(b))
             /\ stats[b].cache_hits + stats[b].cache_misses <= stats[b].total_queries
             /\ (\E i \in CallsOf(b) : ~log[i].result.success) =>
                    stats[b].cache_hits + stats[b].cache_misses < stats[b].total_queries)
    /\ [][\A b \in Bots : \A f \in Counters : stats'[b][f] >= stats[b][f]]_vars

\* C19 witness: a bot with a failed call, a successful call and a cleared
\* history.
C19_Witness ==
    \E b \in Bots :
        /\ \E i \in CallsOf(b) : ~log[i].result.success
        /\ Cardinality(SuccessesOf(b)) >= 1
        /\ chat_history[b] = <<>>

====
